---- MODULE Spec2Model ----
(***************************************************************************)
(* Orchestration logic of the skai example-generation and labeling-task    *)
(* scripts: generate_examples_main.py and create_cloud_labeling_task.py.   *)
(*                                                                         *)
(* A run is one process execution: the flags, the interpreter version and  *)
(* the contents of the labels file are fixed when it starts (Init), and    *)
(* main() advances one stage per action.  Every call of an external        *)
(* collaborator (skai.buildings, skai.open_street_map, geopandas,          *)
(* skai.generate_examples, skai.cloud_labeling) is appended to `calls`     *)
(* with the arguments it was given; a collaborator may raise, which ends   *)
(* the run.                                                                *)
(*                                                                         *)
(* Strings whose characters matter (regions, gdal_env settings, interpreter*)
(* versions, dataset names) are sequences of one-character strings; an     *)
(* optional value is None (<<>>) or Some(v) (<<v>>).  A Python number is a *)
(* record that keeps its type: an int n is [type "int", n], a float x is   *)
(* [type "float", n = 10 * x].                                             *)
(***************************************************************************)
EXTENDS Integers, Sequences, FiniteSets, TLC

VARIABLES
  script,                    \* which script's main() runs
  FLAGS,                     \* the parsed command-line flags
  python_version,            \* platform.python_version()
  labels_df,                 \* the rows gpd.read_file yields for labels_file
  pc,                        \* position of main()
  err,                       \* the exception that ended main(), or "none"
  calls,                     \* the external calls made so far, in order
  dataflow_container_image,  \* local of generate_examples_main.main
  building_centroids,        \* local of generate_examples_main.main
  labeled_coordinates,       \* local of generate_examples_main.main
  gdal_env,                  \* local of generate_examples_main.main
  timestamped_dataset,       \* local of both mains
  labeler_pool,              \* local of both mains
  import_file                \* import_file_uri / import_file_path

vars == <<script, FLAGS, python_version, labels_df, pc, err, calls,
          dataflow_container_image, building_centroids, labeled_coordinates,
          gdal_env, timestamped_dataset, labeler_pool, import_file>>

-----------------------------------------------------------------------------
(* Bounds of the model. *)

\* longest labels file (rows) enumerated exhaustively
MaxRows == 3
\* longest gdal_env list enumerated exhaustively
MaxEnv == 2
\* longest cloud_labeler_emails list
MaxEmails == 2
\* largest num_keep_labeled_examples
MaxKeep == 2

-----------------------------------------------------------------------------
(* Python values. *)

None == <<>>
Some(v) == <<v>>

\* Python truthiness of an optional path or identifier (a plain string).
TruthyText(opt) == opt # None /\ opt[1] # ""

\* Python truthiness of an optional list or character sequence.
TruthySeq(opt) == opt # None /\ opt[1] # <<>>

Min(a, b) == IF a < b THEN a ELSE b
Max(a, b) == IF a > b THEN a ELSE b

\* seq[:n]
SliceTo(seq, n) ==
  IF n >= 0 THEN SubSeq(seq, 1, Min(n, Len(seq)))
  ELSE SubSeq(seq, 1, Max(0, Len(seq) + n))

\* s.startswith(prefix)
StartsWith(s, prefix) ==
  /\ Len(s) >= Len(prefix)
  /\ SubSeq(s, 1, Len(prefix)) = prefix

PyInt(k) == [type |-> "int", s |-> "", n |-> k]
PyBool(b) == [type |-> "bool", s |-> "", n |-> IF b THEN 1 ELSE 0]
PyFloatTenths(t) == [type |-> "float", s |-> "", n |-> t]
PyStr(str) == [type |-> "str", s |-> str, n |-> 0]
PyNone == [type |-> "NoneType", s |-> "", n |-> 0]

\* float(x) for an int, a bool or a float
ToFloat(x) ==
  IF x.type = "float" THEN x ELSE [type |-> "float", s |-> "", n |-> 10 * x.n]

\* isinstance(label, (int, float)); bool is a subclass of int
IsIntOrFloat(label) == label.type \in {"int", "bool", "float"}

-----------------------------------------------------------------------------
(* String literals of the two scripts. *)

EuropePrefix == <<"e", "u", "r", "o", "p", "e", "-">>
EuropeWest4 == <<"e", "u", "r", "o", "p", "e", "-", "w", "e", "s", "t", "4">>
UsCentral1 == <<"u", "s", "-", "c", "e", "n", "t", "r", "a", "l", "1">>
PoolSuffix == <<"_", "p", "o", "o", "l">>
NoneText == <<"N", "o", "n", "e">>
Image37 == "gcr.io/disaster-assessment/dataflow_3.7_image:latest"
Image38 == "gcr.io/disaster-assessment/dataflow_3.8_image:latest"
Image39 == "gcr.io/disaster-assessment/dataflow_3.9_image:latest"
ImportFileParts == <<"examples", "labeling_images", "import_file.csv">>

\* The exceptions the two scripts raise themselves.
ErrContainerImage == "ValueError: dataflow_container_image must be specified"
ErrNoSource == "ValueError: labels_file or buildings_method should be specified"
ErrBuildingsMethod == "ValueError: Invalid value for buildings_method"
ErrLabelType == "ValueError: Unrecognized label property type"
ErrGdalEnv == "ValueError: gdal_env element should have the form var=value"
ErrDatasetName == "ValueError: Dataset name must be specified"
ErrLabelerEmail == "ValueError: Must provide at least one labeler email"
ErrRegionNone == "AttributeError: NoneType has no attribute startswith"

-----------------------------------------------------------------------------
(* generate_examples_main.py: helpers. *)

\* The collaborator get_building_centroids delegates to, or "ValueError".
get_building_centroids(buildings_method) ==
  IF buildings_method = "file" THEN "buildings.read_buildings_file"
  ELSE IF buildings_method = "open_street_map"
       THEN "open_street_map.get_building_centroids_in_regions"
  ELSE "ValueError"

\* Mutant of ClassIndex: the index counts from one.
ClassIndexOneBased(class_names, label) ==
  CHOOSE i \in 1..Len(class_names) :
    /\ class_names[i] = label
    /\ \A j \in 1..(i - 1) : class_names[j] # label

\* class_names.index(label): 0-based index of the first occurrence.
ClassIndex(class_names, label) ==
  (CHOOSE i \in 1..Len(class_names) :
      /\ class_names[i] = label
      /\ \A j \in 1..(i - 1) : class_names[j] # label) - 1

\* One iteration of the loop of _read_labels_file: what the row contributes.
ResolveLabel(label, class_names) ==
  IF label.type = "str"
  THEN IF \E i \in 1..Len(class_names) : class_names[i] = label.s
       THEN [kind |-> "append",
             float_label |-> ToFloat(PyInt(ClassIndex(class_names, label.s)))]
       ELSE [kind |-> "continue", float_label |-> PyNone]
  ELSE IF IsIntOrFloat(label)
       THEN [kind |-> "append", float_label |-> ToFloat(label)]
       ELSE [kind |-> "raise", float_label |-> PyNone]

\* The loop of _read_labels_file over rows lo..hi, in iteration order.  The
\* rows' contributions are independent, so the range is evaluated by halves
\* and the halves' coordinates are concatenated in order; a raise in any row
\* ends the function without a result.
RECURSIVE ReadRows(_, _, _, _)
ReadRows(rows, class_names, lo, hi) ==
  IF lo > hi THEN [raised |-> FALSE, coordinates |-> <<>>]
  ELSE IF lo = hi
  THEN LET row == rows[lo]
           r == ResolveLabel(row.label, class_names)
       IN  IF r.kind = "raise" THEN [raised |-> TRUE, coordinates |-> <<>>]
           ELSE IF r.kind = "continue"
                THEN [raised |-> FALSE, coordinates |-> <<>>]
                ELSE [raised |-> FALSE,
                      coordinates |-> << <<row.centroid[1], row.centroid[2],
                                           r.float_label>> >>]
  ELSE LET mid == (lo + hi) \div 2
           first == ReadRows(rows, class_names, lo, mid)
           rest == ReadRows(rows, class_names, mid + 1, hi)
       IN  IF first.raised \/ rest.raised
           THEN [raised |-> TRUE, coordinates |-> <<>>]
           ELSE [raised |-> FALSE,
                 coordinates |-> first.coordinates \o rest.coordinates]

\* Mutant of KeepLabeled: a keep-count of 0 truncates like any other.
KeepLabeledZeroTruncates(coordinates, num_keep) ==
  IF num_keep # None
  THEN SliceTo(coordinates, num_keep[1])
  ELSE coordinates

\* if FLAGS.num_keep_labeled_examples: coordinates = coordinates[:keep]
KeepLabeled(coordinates, num_keep) ==
  IF num_keep # None /\ num_keep[1] # 0
  THEN SliceTo(coordinates, num_keep[1])
  ELSE coordinates

\* _read_labels_file, after gpd.read_file has returned the rows.
_read_labels_file(rows, class_names, num_keep) ==
  LET r == ReadRows(rows, class_names, 1, Len(rows))
  IN  IF r.raised THEN r
      ELSE [raised |-> FALSE,
            coordinates |-> KeepLabeled(r.coordinates, num_keep)]

\* Mutant of _get_labeling_dataset_region: the prefix lacks its hyphen.
_get_labeling_dataset_region_no_hyphen(project_region) ==
  IF StartsWith(project_region, SubSeq(EuropePrefix, 1, 6))
  THEN EuropeWest4 ELSE UsCentral1

\* _get_labeling_dataset_region (the same function in both scripts).
_get_labeling_dataset_region(project_region) ==
  IF StartsWith(project_region, EuropePrefix) THEN EuropeWest4 ELSE UsCentral1

\* '=' in setting
HasEquals(setting) == \E i \in 1..Len(setting) : setting[i] = "="

\* Mutant of Partition: the setting is split at its last '='.
PartitionAtLast(setting) ==
  LET i == CHOOSE k \in 1..Len(setting) :
             /\ setting[k] = "="
             /\ \A j \in (k + 1)..Len(setting) : setting[j] # "="
  IN  [var |-> SubSeq(setting, 1, i - 1),
       value |-> SubSeq(setting, i + 1, Len(setting))]

\* setting.partition('='): the text before and after the first '='.
Partition(setting) ==
  LET i == CHOOSE k \in 1..Len(setting) :
             /\ setting[k] = "="
             /\ \A j \in 1..(k - 1) : setting[j] # "="
  IN  [var |-> SubSeq(setting, 1, i - 1),
       value |-> SubSeq(setting, i + 1, Len(setting))]

\* gdal_env[var] = value
DictSet(d, var, value) ==
  [k \in (DOMAIN d) \cup {var} |-> IF k = var THEN value ELSE d[k]]

\* _get_gdal_env: the loop over FLAGS.gdal_env.
RECURSIVE GetGdalEnvFrom(_, _)
GetGdalEnvFrom(settings, d) ==
  IF settings = <<>> THEN [raised |-> FALSE, env |-> d]
  ELSE IF ~HasEquals(Head(settings)) THEN [raised |-> TRUE, env |-> <<>>]
  ELSE LET p == Partition(Head(settings))
       IN  GetGdalEnvFrom(Tail(settings), DictSet(d, p.var, p.value))

_get_gdal_env(settings) == GetGdalEnvFrom(settings, <<>>)

\* Mutant of DefaultContainerImage: Python 3.9 gets the 3.8 image.
DefaultContainerImageStale39(py_version) ==
  IF py_version = <<"3", ".", "7">> THEN Some(Image37)
  ELSE IF py_version = <<"3", ".", "8">> THEN Some(Image38)
  ELSE IF py_version = <<"3", ".", "9">> THEN Some(Image38)
  ELSE None

\* The default Dataflow image of an interpreter version, None when unknown.
DefaultContainerImage(py_version) ==
  IF py_version = <<"3", ".", "7">> THEN Some(Image37)
  ELSE IF py_version = <<"3", ".", "8">> THEN Some(Image38)
  ELSE IF py_version = <<"3", ".", "9">> THEN Some(Image39)
  ELSE None

\* Lines 240-251 of main: the image handed to the engine, or a raise.
ResolveContainerImage(use_dataflow, image_flag, version) ==
  LET py_version == SliceTo(version, 3)
  IN  IF use_dataflow /\ image_flag = None
      THEN IF DefaultContainerImage(py_version) = None
           THEN [raised |-> TRUE, image |-> None]
           ELSE [raised |-> FALSE, image |-> DefaultContainerImage(py_version)]
      ELSE [raised |-> FALSE, image |-> image_flag]

\* Mutant of NoSource: the labels file is not taken into account.
NoSourceIgnoringLabels(labels_file, buildings_method) ==
  buildings_method = "none"

\* not FLAGS.labels_file and FLAGS.buildings_method == 'none'
NoSource(labels_file, buildings_method) ==
  ~TruthyText(labels_file) /\ buildings_method = "none"

\* f'{dataset_name}_{timestamp}'
TimestampedDataset(dataset_name, timestamp) ==
  (IF dataset_name = None THEN NoneText ELSE dataset_name[1])
    \o <<"_">> \o timestamp

\* f'{timestamped_dataset}_pool'
pool_display_name(dataset) == dataset \o PoolSuffix

\* Mutant of SpecialistPoolArgs: the last email becomes the manager.
SpecialistPoolArgsLastManager(project, region, dataset, emails) ==
  [project |-> project, region |-> region,
   display_name |-> pool_display_name(dataset),
   manager_emails |-> SubSeq(emails, Len(emails), Len(emails)),
   worker_emails |-> emails]

\* The arguments of cloud_labeling.create_specialist_pool.
SpecialistPoolArgs(project, region, dataset, emails) ==
  [project |-> project, region |-> region,
   display_name |-> pool_display_name(dataset),
   manager_emails |-> SliceTo(emails, 1),
   worker_emails |-> emails]

\* The arguments of cloud_labeling.create_cloud_labeling_job.
LabelingJobArgs(project, region, dataset, pool, import_uri, flags) ==
  [project |-> project,
   region |-> _get_labeling_dataset_region(region),
   dataset_name |-> dataset,
   labeler_pool |-> pool,
   import_file_uri |-> import_uri,
   labeler_instructions_uri |-> flags.labeler_instructions_uri,
   label_inputs_schema_uri |-> flags.label_inputs_schema_uri]

-----------------------------------------------------------------------------
(* The inputs of a run: the flags as absl parses them, the interpreter      *)
(* version and the rows of the labels file.                                 *)

UsEast1 == <<"u", "s", "-", "e", "a", "s", "t", "1">>
EuropeWest1 == <<"e", "u", "r", "o", "p", "e", "-", "w", "e", "s", "t", "1">>
DatasetName == <<"d", "s">>
LabelsPath == "labels.geojson"
ExistingPool == "projects/p/locations/l/specialistPools/7"
CustomImage == "gcr.io/my-project/my-image:latest"
DefaultClasses == <<"undamaged", "damaged">>

\* The default of the num_keep_labeled_examples flag.
DefaultNumKeep == 1000

\* The flag defaults of generate_examples_main.py, with the required flags
\* (image paths, output_dir) given; cloud_location, images_dir are flags of
\* create_cloud_labeling_task.py.  num_keep_labeled_examples_present is
\* absl's FLAGS['num_keep_labeled_examples'].present: whether the flag was
\* given a value, on the command line or by the caller.
DefaultFlags ==
  [cloud_project |-> "my-project",
   cloud_region |-> None,
   cloud_location |-> UsCentral1,
   use_dataflow |-> FALSE,
   dataset_name |-> None,
   output_dir |-> "gs://bucket/disaster",
   images_dir |-> "gs://bucket/images",
   dataflow_container_image |-> None,
   gdal_env |-> <<>>,
   buildings_method |-> "file",
   labels_file |-> None,
   label_classes |-> DefaultClasses,
   num_keep_labeled_examples |-> Some(DefaultNumKeep),
   num_keep_labeled_examples_present |-> FALSE,
   create_cloud_labeling_task |-> FALSE,
   cloud_labeler_pool |-> None,
   cloud_labeler_emails |-> None,
   labeler_instructions_uri |-> "gs://skai-public/labeling_instructions.pdf",
   label_inputs_schema_uri |->
     "gs://google-cloud-aiplatform/schema/datalabelingjob/inputs/image_classification_1.0.0.yaml"]

Config(s, flags, version, rows) ==
  [script |-> s, flags |-> flags, python_version |-> version, labels_df |-> rows]

\* A row of the labels file: the centroid of its geometry and its label value.
Row(i, label) == [centroid |-> <<i, 0 - i>>, label |-> label]

\* The file whose i-th row carries the i-th label of `labels`.
RowsOf(labels) == [i \in 1..Len(labels) |-> Row(i, labels[i])]

\* All sequences over S of length at most n.
SeqsUpTo(S, n) == UNION { [1..k -> S] : k \in 0..n }

Python38 == <<"3", ".", "8", ".", "1", "0">>
Python310 == <<"3", ".", "1", "0", ".", "4">>
PythonVersions ==
  { <<"3", ".", "7", ".", "1", "2">>,
    <<"3", ".", "8", ".", "1", "0">>,
    <<"3", ".", "9", ".", "1">>,
    <<"3", ".", "1", "0", ".", "4">>,
    <<"3", ".", "1", "1", ".", "0">>,
    <<"3", ".", "6", ".", "9">>,
    <<"2", ".", "7", ".", "1", "8">>,
    <<"3", ".", "9">> }

GdalSettings ==
  { <<"A", "=", "1">>,
    <<"A", "=", "2">>,
    <<"B", "=", "x", "=", "y">>,
    <<"B", "A", "D">>,
    <<"=", "v">>,
    <<"A", "=">> }

RegionPrefixes ==
  { <<"e", "u", "r", "o", "p", "e", "-">>,
    <<"e", "u", "r", "o", "p", "e">>,
    <<"E", "u", "r", "o", "p", "e", "-">>,
    <<"u", "s", "-">>,
    <<"a", "s", "i", "a", "-">>,
    <<>>,
    <<"e", "u">>,
    <<"x", "e", "u", "r", "o", "p", "e", "-">>,
    <<"e", "u", "r", "o", "p", "e", "_">> }
RegionSuffixes ==
  { <<>>,
    <<"w", "e", "s", "t", "1">>,
    <<"w", "e", "s", "t", "4">>,
    <<"e", "a", "s", "t", "1">>,
    <<"-">> }
Regions == { p \o q : p \in RegionPrefixes, q \in RegionSuffixes }

Emails == {"a@x.com", "b@x.com"}

LabelValues ==
  { PyStr("damaged"), PyStr("destroyed"), PyStr("Damaged"),
    PyInt(2), PyFloatTenths(5), PyBool(TRUE), PyNone }

\* Five valid labeled rows.
FiveValidLabels ==
  <<PyStr("damaged"), PyInt(2), PyStr("undamaged"), PyFloatTenths(5),
    PyStr("damaged")>>

\* One valid labeled row more than the default keep-count.
ManyValidLabels == [i \in 1..(DefaultNumKeep + 1) |-> PyInt(2)]

ClassSchemas ==
  { DefaultClasses, <<"damaged", "undamaged", "destroyed", "damaged">> }

\* Runs that reach every stage of both scripts.
CoverConfigs ==
  { Config("generate_examples_main",
           [DefaultFlags EXCEPT !.labels_file = Some(LabelsPath),
                                !.gdal_env = << <<"A", "=", "1">> >>,
                                !.create_cloud_labeling_task = TRUE,
                                !.dataset_name = Some(DatasetName),
                                !.cloud_labeler_emails = Some(<<"a@x.com", "b@x.com">>),
                                !.cloud_region = Some(UsEast1)],
           Python38, RowsOf(<<PyStr("damaged")>>)),
    Config("create_cloud_labeling_task",
           [DefaultFlags EXCEPT !.dataset_name = Some(DatasetName),
                                !.cloud_labeler_emails = Some(<<"a@x.com">>)],
           Python38, <<>>) }

\* The labeling-task flags both scripts share.
TaskFlags(base, datasets, pools, emails, regions) ==
  { [base EXCEPT !.dataset_name = d, !.cloud_labeler_pool = p,
                 !.cloud_labeler_emails = e, !.cloud_region = r,
                 !.cloud_location = IF r = None THEN UsCentral1 ELSE r[1]] :
      d \in datasets, p \in pools, e \in emails, r \in regions }

\* Source selection, validation order and the labeling task of both scripts.
MainConfigs ==
  LET engines == { <<FALSE, None, Python38>>, <<TRUE, None, Python38>>,
                   <<TRUE, None, Python310>>, <<TRUE, Some(CustomImage), Python310>> }
      labels == { <<None, <<>> >>, <<Some(""), <<>> >> }
                  \cup { <<Some(LabelsPath), RowsOf(l)>> :
                           l \in { <<>>, <<PyStr("damaged")>>, <<PyStr("destroyed")>>,
                                   <<PyNone>>, <<PyStr("damaged"), PyInt(2)>> } }
      envs == { <<>>, << <<"A", "=", "1">> >>, << <<"B", "A", "D">> >> }
      tasks == {DefaultFlags}
                 \cup TaskFlags([DefaultFlags EXCEPT !.create_cloud_labeling_task = TRUE],
                                {None, Some(<<>>), Some(DatasetName)},
                                {None, Some(ExistingPool)},
                                {None, Some(<<>>), Some(<<"a@x.com", "b@x.com">>)},
                                {None, Some(EuropeWest1)})
  IN  { Config("generate_examples_main",
               [t EXCEPT !.use_dataflow = e[1], !.dataflow_container_image = e[2],
                         !.buildings_method = m, !.labels_file = l[1],
                         !.gdal_env = g],
               e[3], l[2]) :
          e \in engines, m \in {"file", "open_street_map", "none"},
          l \in labels, g \in envs, t \in tasks }
      \cup
      { Config("create_cloud_labeling_task", f, Python38, <<>>) :
          f \in TaskFlags(DefaultFlags, {None, Some(DatasetName)},
                          {None, Some(ExistingPool)},
                          {None, Some(<<>>), Some(<<"a@x.com", "b@x.com">>)},
                          {Some(UsEast1), Some(EuropeWest1)}) }

\* Label ingestion: every labels file of at most MaxRows rows.
LabelsConfigs ==
  { Config("generate_examples_main",
           [DefaultFlags EXCEPT !.buildings_method = "none",
                                !.labels_file = Some(LabelsPath),
                                !.label_classes = c,
                                !.num_keep_labeled_examples = k,
                                !.num_keep_labeled_examples_present = TRUE],
           Python38, RowsOf(l)) :
      c \in ClassSchemas,
      k \in {None} \cup { Some(n) : n \in (0 - 1)..MaxKeep },
      l \in SeqsUpTo(LabelValues, MaxRows) \cup {FiveValidLabels} }
  \cup
  { Config("generate_examples_main",
           [DefaultFlags EXCEPT !.buildings_method = "none",
                                !.labels_file = Some(LabelsPath)],
           Python38, RowsOf(l)) :
      l \in {FiveValidLabels, ManyValidLabels} }

\* Pool provisioning and job creation of both scripts.
TaskConfigs ==
  LET pools == {None, Some(""), Some(ExistingPool)}
      emails == {None} \cup { Some(e) : e \in SeqsUpTo(Emails, MaxEmails) }
  IN  { Config("generate_examples_main",
               [f EXCEPT !.buildings_method = "open_street_map"], Python38, <<>>) :
          f \in TaskFlags([DefaultFlags EXCEPT !.create_cloud_labeling_task = TRUE],
                          {None, Some(<<>>), Some(DatasetName)}, pools, emails,
                          {None} \cup { Some(r) : r \in Regions }) }
      \cup
      { Config("create_cloud_labeling_task", f, Python38, <<>>) :
          f \in TaskFlags(DefaultFlags, {None, Some(DatasetName)}, pools, emails,
                          { Some(r) : r \in Regions }) }

\* Engine selection and the raster-I/O environment.
EngineConfigs ==
  { Config("generate_examples_main",
           [DefaultFlags EXCEPT !.use_dataflow = u,
                                !.dataflow_container_image = i,
                                !.gdal_env = g,
                                !.buildings_method = m[1],
                                !.labels_file = m[2]],
           v, RowsOf(<<PyStr("damaged")>>)) :
      u \in BOOLEAN, i \in {None, Some(""), Some(CustomImage)},
      g \in SeqsUpTo(GdalSettings, MaxEnv),
      m \in { <<"file", None>>, <<"none", Some(LabelsPath)>> },
      v \in PythonVersions }

InitFrom(configs) ==
  /\ \E c \in configs :
       /\ script = c.script
       /\ FLAGS = c.flags
       /\ python_version = c.python_version
       /\ labels_df = c.labels_df
  /\ pc = IF script = "generate_examples_main" THEN "container_image" ELSE "images"
  /\ err = "none"
  /\ calls = <<>>
  /\ dataflow_container_image = None
  /\ building_centroids = <<>>
  /\ labeled_coordinates = <<>>
  /\ gdal_env = <<>>
  /\ timestamped_dataset = <<>>
  /\ labeler_pool = ""
  /\ import_file = <<>>

Init == InitFrom(CoverConfigs \cup MainConfigs)
InitLabels == InitFrom(CoverConfigs \cup LabelsConfigs)
InitTask == InitFrom(CoverConfigs \cup TaskConfigs)
InitEngine == InitFrom(CoverConfigs \cup EngineConfigs)

-----------------------------------------------------------------------------
(* External collaborators: what they may return. *)

\* time.strftime('%Y%m%d_%H%M%S')
Timestamps ==
  { <<"2", "0", "2", "1", "1", "1", "0", "1", "_", "1", "2", "0", "0", "0", "0">>,
    <<"2", "0", "2", "1", "1", "1", "0", "1", "_", "1", "2", "0", "0", "0", "1">> }

\* Building centroids a discovery collaborator may return.
CentroidResults == { <<>>, << <<10, 20>> >> }

\* Identifiers cloud_labeling.create_specialist_pool may return.
NewPoolIds == { "projects/p/locations/l/specialistPools/1",
                "projects/p/locations/l/specialistPools/2" }

\* (num_images, import_file_path) of cloud_labeling.create_labeling_images.
LabelingImagesResults == { <<"gs://bucket/images", "import_file.csv">> }

\* One external call: its arguments, whether it returned (or raised) and what.
Call(name, args, ok, result) ==
  [name |-> name, args |-> args, returned |-> ok, result |-> result]

NoArgs == [none |-> TRUE]

-----------------------------------------------------------------------------
(* generate_examples_main.main, one action per stage. *)

\* Mutant of StageAfter: the gdal_env flag is parsed only after the engine ran.
StageAfterGdalEnvLate(stage) ==
  CASE stage = "container_image" -> "sources"
    [] stage = "sources" -> "buildings"
    [] stage = "buildings" -> "labels"
    [] stage = "labels" -> "generate"
    [] stage = "generate" -> "gdal_env"
    [] stage = "gdal_env" -> "labeling_task"
    [] stage = "labeling_task" -> "pool"
    [] stage = "pool" -> "job"
    [] stage = "job" -> "done"

\* Mutant of StageAfter: the labels file is read before the buildings are found.
StageAfterLabelsFirst(stage) ==
  CASE stage = "container_image" -> "sources"
    [] stage = "sources" -> "labels"
    [] stage = "labels" -> "buildings"
    [] stage = "buildings" -> "gdal_env"
    [] stage = "gdal_env" -> "generate"
    [] stage = "generate" -> "labeling_task"
    [] stage = "labeling_task" -> "pool"
    [] stage = "pool" -> "job"
    [] stage = "job" -> "done"

\* The statement order of generate_examples_main.main: the stage that follows.
StageAfter(stage) ==
  CASE stage = "container_image" -> "sources"
    [] stage = "sources" -> "buildings"
    [] stage = "buildings" -> "labels"
    [] stage = "labels" -> "gdal_env"
    [] stage = "gdal_env" -> "generate"
    [] stage = "generate" -> "labeling_task"
    [] stage = "labeling_task" -> "pool"
    [] stage = "pool" -> "job"
    [] stage = "job" -> "done"

\* The statement order of create_cloud_labeling_task.main.
TaskStageAfter(stage) ==
  CASE stage = "images" -> "pool"
    [] stage = "pool" -> "job"
    [] stage = "job" -> "done"

\* An uncaught exception ends main.
Raise(e) == pc' = "done" /\ err' = e

\* Control falls through to the next stage.
Continue ==
  /\ pc' = IF script = "generate_examples_main"
           THEN StageAfter(pc) ELSE TaskStageAfter(pc)
  /\ err' = err

\* main returns.
Return == pc' = "done" /\ err' = err

\* Lines 239-251: if using Dataflow, check that the container image is valid.
CheckContainerImage ==
  /\ script = "generate_examples_main" /\ pc = "container_image"
  /\ LET r == ResolveContainerImage(FLAGS.use_dataflow,
                                    FLAGS.dataflow_container_image,
                                    python_version)
     IN  IF r.raised
         THEN Raise(ErrContainerImage)
              /\ UNCHANGED dataflow_container_image
         ELSE Continue /\ dataflow_container_image' = r.image
  /\ UNCHANGED <<script, FLAGS, python_version, labels_df, calls,
                 building_centroids, labeled_coordinates, gdal_env,
                 timestamped_dataset, labeler_pool, import_file>>

\* Lines 253-256: neither labels nor buildings requested.
CheckSources ==
  /\ script = "generate_examples_main" /\ pc = "sources"
  /\ IF NoSource(FLAGS.labels_file, FLAGS.buildings_method)
     THEN Raise(ErrNoSource)
     ELSE Continue
  /\ UNCHANGED <<script, FLAGS, python_version, labels_df, calls,
                 dataflow_container_image, building_centroids,
                 labeled_coordinates, gdal_env, timestamped_dataset,
                 labeler_pool, import_file>>

\* Lines 257-264: read the area of interest and find the buildings in it.
FindBuildings ==
  /\ script = "generate_examples_main" /\ pc = "buildings"
  /\ IF FLAGS.buildings_method # "none"
     THEN \E aoi_ok \in BOOLEAN, found_ok \in BOOLEAN, found \in CentroidResults :
            LET read == Call("buildings.read_aois", NoArgs, aoi_ok, "")
                target == get_building_centroids(FLAGS.buildings_method)
            IN  IF ~aoi_ok
                THEN /\ calls' = Append(calls, read)
                     /\ Raise("external: buildings.read_aois")
                     /\ UNCHANGED building_centroids
                ELSE IF target = "ValueError"
                THEN /\ calls' = Append(calls, read)
                     /\ Raise(ErrBuildingsMethod)
                     /\ UNCHANGED building_centroids
                ELSE IF ~found_ok
                THEN /\ calls' = calls \o <<read, Call(target, NoArgs, FALSE, "")>>
                     /\ Raise("external: get_building_centroids")
                     /\ UNCHANGED building_centroids
                ELSE /\ calls' = calls \o <<read, Call(target, NoArgs, TRUE, "")>>
                     /\ Continue
                     /\ building_centroids' = found
     ELSE /\ building_centroids' = <<>>
          /\ Continue
          /\ UNCHANGED calls
  /\ UNCHANGED <<script, FLAGS, python_version, labels_df,
                 dataflow_container_image, labeled_coordinates, gdal_env,
                 timestamped_dataset, labeler_pool, import_file>>

\* Lines 266-271: read the labels file, if one is given.
ReadLabels ==
  /\ script = "generate_examples_main" /\ pc = "labels"
  /\ IF TruthyText(FLAGS.labels_file)
     THEN \E read_ok \in BOOLEAN :
            LET read == Call("gpd.read_file", [path |-> FLAGS.labels_file[1]],
                             read_ok, "")
                r == _read_labels_file(labels_df, FLAGS.label_classes,
                                    FLAGS.num_keep_labeled_examples)
            IN  /\ calls' = Append(calls, read)
                /\ IF ~read_ok
                   THEN Raise("external: gpd.read_file")
                        /\ UNCHANGED labeled_coordinates
                   ELSE IF r.raised
                   THEN Raise(ErrLabelType)
                        /\ UNCHANGED labeled_coordinates
                   ELSE Continue
                        /\ labeled_coordinates' = r.coordinates
     ELSE /\ labeled_coordinates' = <<>>
          /\ Continue
          /\ UNCHANGED calls
  /\ UNCHANGED <<script, FLAGS, python_version, labels_df,
                 dataflow_container_image, building_centroids, gdal_env,
                 timestamped_dataset, labeler_pool, import_file>>

\* Line 273: gdal_env = _get_gdal_env()
ParseGdalEnv ==
  /\ script = "generate_examples_main" /\ pc = "gdal_env"
  /\ LET r == _get_gdal_env(FLAGS.gdal_env)
     IN  IF r.raised
         THEN Raise(ErrGdalEnv)
              /\ UNCHANGED gdal_env
         ELSE Continue /\ gdal_env' = r.env
  /\ UNCHANGED <<script, FLAGS, python_version, labels_df, calls,
                 dataflow_container_image, building_centroids,
                 labeled_coordinates, timestamped_dataset, labeler_pool,
                 import_file>>

\* The arguments main hands to generate_examples.generate_examples_pipeline.
PipelineArgs ==
  [output_dir |-> FLAGS.output_dir,
   building_centroids |-> building_centroids,
   labeled_coordinates |-> labeled_coordinates,
   use_dataflow |-> FLAGS.use_dataflow,
   gdal_env |-> gdal_env,
   dataflow_container_image |-> dataflow_container_image,
   cloud_project |-> FLAGS.cloud_project,
   cloud_region |-> FLAGS.cloud_region]

\* Lines 274-291: the blocking call of the generation engine.
GenerateExamples ==
  /\ script = "generate_examples_main" /\ pc = "generate"
  /\ \E ok \in BOOLEAN :
       /\ calls' = Append(calls,
            Call("generate_examples.generate_examples_pipeline",
                 PipelineArgs, ok, ""))
       /\ IF ok THEN Continue
          ELSE Raise("external: generate_examples_pipeline")
  /\ UNCHANGED <<script, FLAGS, python_version, labels_df,
                 dataflow_container_image, building_centroids,
                 labeled_coordinates, gdal_env, timestamped_dataset,
                 labeler_pool, import_file>>

\* Lines 293-297: whether to create a labeling task, and under which name.
StartLabelingTask ==
  /\ script = "generate_examples_main" /\ pc = "labeling_task"
  /\ IF ~FLAGS.create_cloud_labeling_task
     THEN Return /\ UNCHANGED timestamped_dataset
     ELSE IF ~TruthySeq(FLAGS.dataset_name)
     THEN Raise(ErrDatasetName)
          /\ UNCHANGED timestamped_dataset
     ELSE \E timestamp \in Timestamps :
            /\ timestamped_dataset' =
                 TimestampedDataset(FLAGS.dataset_name, timestamp)
            /\ Continue
  /\ UNCHANGED <<script, FLAGS, python_version, labels_df, calls,
                 dataflow_container_image, building_centroids,
                 labeled_coordinates, gdal_env, labeler_pool, import_file>>

\* Lines 298-308: reuse the given labeler pool or create one.
ProvisionPool ==
  /\ script = "generate_examples_main" /\ pc = "pool"
  /\ IF FLAGS.cloud_labeler_pool # None
     THEN /\ labeler_pool' = FLAGS.cloud_labeler_pool[1]
          /\ Continue
          /\ UNCHANGED calls
     ELSE IF ~TruthySeq(FLAGS.cloud_labeler_emails)
     THEN /\ Raise(ErrLabelerEmail)
          /\ UNCHANGED <<calls, labeler_pool>>
     ELSE \E ok \in BOOLEAN, id \in NewPoolIds :
            /\ calls' = Append(calls,
                 Call("cloud_labeling.create_specialist_pool",
                      SpecialistPoolArgs(FLAGS.cloud_project, FLAGS.cloud_region,
                                         timestamped_dataset,
                                         FLAGS.cloud_labeler_emails[1]),
                      ok, IF ok THEN id ELSE ""))
            /\ IF ok THEN Continue /\ labeler_pool' = id
               ELSE Raise("external: create_specialist_pool")
                    /\ UNCHANGED labeler_pool
  /\ UNCHANGED <<script, FLAGS, python_version, labels_df,
                 dataflow_container_image, building_centroids,
                 labeled_coordinates, gdal_env, timestamped_dataset,
                 import_file>>

\* Lines 310-319: create the labeling job in a supported region.
CreateLabelingJob ==
  /\ script = "generate_examples_main" /\ pc = "job"
  /\ import_file' = <<FLAGS.output_dir>> \o ImportFileParts
  /\ IF FLAGS.cloud_region = None
     THEN \* None has no startswith
          Raise(ErrRegionNone)
          /\ UNCHANGED calls
     ELSE \E ok \in BOOLEAN :
            /\ calls' = Append(calls,
                 Call("cloud_labeling.create_cloud_labeling_job",
                      LabelingJobArgs(FLAGS.cloud_project, FLAGS.cloud_region[1],
                                      timestamped_dataset, labeler_pool,
                                      import_file', FLAGS),
                      ok, ""))
            /\ IF ok THEN Continue
               ELSE Raise("external: create_cloud_labeling_job")
  /\ UNCHANGED <<script, FLAGS, python_version, labels_df,
                 dataflow_container_image, building_centroids,
                 labeled_coordinates, gdal_env, timestamped_dataset,
                 labeler_pool>>

-----------------------------------------------------------------------------
(* create_cloud_labeling_task.main, one action per stage. *)

\* Lines 97-103: name the dataset and write the labeling images.
TaskCreateLabelingImages ==
  /\ script = "create_cloud_labeling_task" /\ pc = "images"
  /\ \E timestamp \in Timestamps, ok \in BOOLEAN, res \in LabelingImagesResults :
       /\ timestamped_dataset' =
            TimestampedDataset(FLAGS.dataset_name, timestamp)
       /\ calls' = Append(calls, Call("cloud_labeling.create_labeling_images",
                                      [images_dir |-> FLAGS.images_dir],
                                      ok, ""))
       /\ IF ok THEN Continue /\ import_file' = res
          ELSE Raise("external: create_labeling_images")
               /\ UNCHANGED import_file
  /\ UNCHANGED <<script, FLAGS, python_version, labels_df,
                 dataflow_container_image, building_centroids,
                 labeled_coordinates, gdal_env, labeler_pool>>

\* Lines 105-116: reuse the given labeler pool or create one.
TaskProvisionPool ==
  /\ script = "create_cloud_labeling_task" /\ pc = "pool"
  /\ IF FLAGS.cloud_labeler_pool # None
     THEN /\ labeler_pool' = FLAGS.cloud_labeler_pool[1]
          /\ Continue
          /\ UNCHANGED calls
     ELSE IF ~TruthySeq(FLAGS.cloud_labeler_emails)
     THEN /\ Raise(ErrLabelerEmail)
          /\ UNCHANGED <<calls, labeler_pool>>
     ELSE \E ok \in BOOLEAN, id \in NewPoolIds :
            /\ calls' = Append(calls,
                 Call("cloud_labeling.create_specialist_pool",
                      SpecialistPoolArgs(FLAGS.cloud_project,
                                         Some(FLAGS.cloud_location),
                                         timestamped_dataset,
                                         FLAGS.cloud_labeler_emails[1]),
                      ok, IF ok THEN id ELSE ""))
            /\ IF ok THEN Continue /\ labeler_pool' = id
               ELSE Raise("external: create_specialist_pool")
                    /\ UNCHANGED labeler_pool
  /\ UNCHANGED <<script, FLAGS, python_version, labels_df,
                 dataflow_container_image, building_centroids,
                 labeled_coordinates, gdal_env, timestamped_dataset,
                 import_file>>

\* Lines 118-125: create the labeling job in a supported region.
TaskCreateLabelingJob ==
  /\ script = "create_cloud_labeling_task" /\ pc = "job"
  /\ \E ok \in BOOLEAN :
       /\ calls' = Append(calls,
            Call("cloud_labeling.create_cloud_labeling_job",
                 LabelingJobArgs(FLAGS.cloud_project, FLAGS.cloud_location,
                                 timestamped_dataset, labeler_pool,
                                 import_file, FLAGS),
                 ok, ""))
       /\ IF ok THEN Continue
          ELSE Raise("external: create_cloud_labeling_job")
  /\ UNCHANGED <<script, FLAGS, python_version, labels_df,
                 dataflow_container_image, building_centroids,
                 labeled_coordinates, gdal_env, timestamped_dataset,
                 labeler_pool, import_file>>

Next ==
  \/ CheckContainerImage
  \/ CheckSources
  \/ FindBuildings
  \/ ReadLabels
  \/ ParseGdalEnv
  \/ GenerateExamples
  \/ StartLabelingTask
  \/ ProvisionPool
  \/ CreateLabelingJob
  \/ TaskCreateLabelingImages
  \/ TaskProvisionPool
  \/ TaskCreateLabelingJob

Spec == Init /\ [][Next]_vars
SpecLabels == InitLabels /\ [][Next]_vars
SpecTask == InitTask /\ [][Next]_vars
SpecEngine == InitEngine /\ [][Next]_vars

-----------------------------------------------------------------------------
(* Observations on a run, used to state the properties below. *)

Generate == script = "generate_examples_main"
Task == script = "create_cloud_labeling_task"

PipelineCall == "generate_examples.generate_examples_pipeline"
PoolCall == "cloud_labeling.create_specialist_pool"
JobCall == "cloud_labeling.create_cloud_labeling_job"
ImagesCall == "cloud_labeling.create_labeling_images"
AoiCall == "buildings.read_aois"
ReadFileCall == "gpd.read_file"
DiscoveryCalls ==
  { AoiCall, "buildings.read_buildings_file",
    "open_street_map.get_building_centroids_in_regions" }

\* The positions in `calls` of the calls of collaborator `name`.
CallsOf(name) == { i \in DOMAIN calls : calls[i].name = name }

Called(name) == CallsOf(name) # {}

\* The configuration errors of the error taxonomy.
ConfigErrors ==
  { ErrContainerImage, ErrNoSource, ErrGdalEnv, ErrDatasetName, ErrLabelerEmail }

\* The orchestrator's stage of a collaborator: discovery 1, ingestion 2,
\* generation 3, pool provisioning 4, job creation 5.
StageOf(name) ==
  IF name \in DiscoveryCalls THEN 1
  ELSE IF name = ReadFileCall THEN 2
  ELSE IF name = PipelineCall THEN 3
  ELSE IF name = PoolCall THEN 4
  ELSE IF name = JobCall THEN 5
  ELSE 0

-----------------------------------------------------------------------------
(* C1 *)

\* C1: whenever the building-centroid set and the labeled-coordinate set are
\* both empty the run is rejected and the generation engine is never invoked;
\* stated for the case the claim names, buildings_method 'none' with a labels
\* file that yields no labeled coordinate: the engine is never called with
\* both coordinate sets empty.
C1_EmptyRunRejected ==
  (Generate /\ FLAGS.buildings_method = "none") =>
    \A i \in CallsOf(PipelineCall) :
      ~(/\ calls[i].args.building_centroids = <<>>
        /\ calls[i].args.labeled_coordinates = <<>>)

-----------------------------------------------------------------------------
(* C2 *)

\* C2 as stated: a run that ends with a configuration error has made no
\* external call before the error is raised.
C2_ConfigErrorBeforeAnyCall ==
  (pc = "done" /\ err \in ConfigErrors) => calls = <<>>

\* C2, amended: a configuration error is raised at the stage that checks it,
\* before that stage's collaborator and every later one is called.  The image
\* and missing-source errors precede every external call; a malformed gdal_env
\* pair is raised after discovery and ingestion and before the generation
\* engine; a missing dataset name and an empty email list are raised after the
\* generation engine has returned (after labeling-image creation in
\* create_cloud_labeling_task) and before any pool or job is created.
C2_ConfigErrorAtItsStage ==
  /\ err \in {ErrContainerImage, ErrNoSource} => calls = <<>>
  /\ err = ErrGdalEnv =>
       /\ \A i \in DOMAIN calls : StageOf(calls[i].name) \in {1, 2}
       /\ FLAGS.buildings_method # "none" => Called(AoiCall)
       /\ FLAGS.labels_file \notin {None, Some("")} => Called(ReadFileCall)
  /\ (Generate /\ err \in {ErrDatasetName, ErrLabelerEmail}) =>
       /\ Cardinality(CallsOf(PipelineCall)) = 1
       /\ calls[Len(calls)].name = PipelineCall
       /\ calls[Len(calls)].returned
  /\ (Task /\ err = ErrLabelerEmail) =>
       /\ Len(calls) = 1
       /\ calls[1].name = ImagesCall
       /\ calls[1].returned
  /\ err \in ConfigErrors =>
       /\ pc = "done"
       /\ ~Called(PoolCall)
       /\ ~Called(JobCall)

\* A run in which a missing dataset name is reported only after the
\* generation engine has run.
C2_Witness ==
  /\ Generate /\ pc = "done" /\ err = ErrDatasetName
  /\ Called(PipelineCall)

-----------------------------------------------------------------------------
(* C3 *)

\* C3: in generate_examples_main the external calls happen in the order
\* discovery, ingestion, generation, pool provisioning, job creation; each
\* collaborator is called at most once; a call is made only after every
\* earlier call has returned without error; pool and job creation happen only
\* with create_cloud_labeling_task; the job is created only after the
\* generation engine has returned.
C3_StagesInOrder ==
  Generate =>
    /\ \A i, j \in DOMAIN calls :
         i < j =>
           /\ StageOf(calls[i].name) <= StageOf(calls[j].name)
           /\ calls[i].name # calls[j].name
           /\ calls[i].returned
           /\ StageOf(calls[i].name) = StageOf(calls[j].name) =>
                (calls[i].name = AoiCall /\ j = i + 1)
    /\ \A i \in DOMAIN calls : StageOf(calls[i].name) \in 1..5
    /\ Cardinality({ i \in DOMAIN calls : StageOf(calls[i].name) = 1 }) <= 2
    /\ (Called(PoolCall) \/ Called(JobCall)) => FLAGS.create_cloud_labeling_task
    /\ \A j \in CallsOf(JobCall) :
         \E i \in CallsOf(PipelineCall) : i < j /\ calls[i].returned
    /\ \A j \in CallsOf(PoolCall) :
         \E i \in CallsOf(PipelineCall) : i < j /\ calls[i].returned

\* A run that went through all five stages.
C3_Witness ==
  /\ Generate /\ pc = "done" /\ err = "none"
  /\ Called(AoiCall) /\ Called(ReadFileCall) /\ Called(PipelineCall)
  /\ Called(PoolCall) /\ Called(JobCall)

-----------------------------------------------------------------------------
(* C4, C5: label ingestion, checked under SpecLabels. *)

\* Number of leading entries of seq that differ from x: the 0-based position
\* of the first x in seq.
LeadingOthers(seq, x) ==
  Cardinality({ j \in 1..Len(seq) : \A k \in 1..j : seq[k] # x })

\* The float the documentation of _read_labels_file assigns to a label.
ExpectedFloat(label) ==
  IF label.type = "str"
  THEN [type |-> "float", s |-> "",
        n |-> 10 * LeadingOthers(FLAGS.label_classes, label.s)]
  ELSE IF label.type = "float" THEN [type |-> "float", s |-> "", n |-> label.n]
  ELSE [type |-> "float", s |-> "", n |-> 10 * label.n]

\* The row's label is a class name of the schema or a number.
Resolvable(row) ==
  \/ row.label.type \in {"int", "bool", "float"}
  \/ /\ row.label.type = "str"
     /\ \E i \in DOMAIN FLAGS.label_classes : FLAGS.label_classes[i] = row.label.s

Unsupported(row) == row.label.type \notin {"str", "int", "bool", "float"}

\* The resolved coordinates of the labels file, in file order, before the cap.
ExpectedCoordinates ==
  LET kept == SelectSeq(labels_df, Resolvable)
  IN  [i \in 1..Len(kept) |->
         <<kept[i].centroid[1], kept[i].centroid[2], ExpectedFloat(kept[i].label)>>]

\* _read_labels_file has been called and has returned or raised.
LabelsRead == Generate /\ Called(ReadFileCall)

\* _read_labels_file has returned its list.
LabelsReturned ==
  /\ LabelsRead
  /\ \A i \in CallsOf(ReadFileCall) : calls[i].returned
  /\ err # ErrLabelType

\* C4: a string label that is a class name yields the float of the name's
\* index in the configured order, a string label not in the list drops its
\* row only, an int or float label is passed through as a float, and a label
\* of any other type is fatal: ingestion returns no coordinates and the run
\* ends.  Every label in the output is a float.
C4_LabelResolution ==
  LabelsRead =>
    IF \E i \in DOMAIN labels_df : Unsupported(labels_df[i])
    THEN /\ pc = "done"
         /\ err \in {ErrLabelType, "external: gpd.read_file"}
         /\ labeled_coordinates = <<>>
         /\ ~Called(PipelineCall)
    ELSE /\ err # ErrLabelType
         /\ LabelsReturned =>
              /\ Len(labeled_coordinates) <= Len(ExpectedCoordinates)
              /\ \A i \in DOMAIN labeled_coordinates :
                   /\ labeled_coordinates[i] = ExpectedCoordinates[i]
                   /\ labeled_coordinates[i][3].type = "float"
              /\ FLAGS.num_keep_labeled_examples \in {None, Some(0)} =>
                   labeled_coordinates = ExpectedCoordinates

\* Schema ["undamaged", "damaged"]: "damaged" yields 1.0, "destroyed" yields
\* no row, the number 2 yields 2.0.
C4_Witness ==
  /\ pc = "gdal_env"
  /\ FLAGS.label_classes = <<"undamaged", "damaged">>
  /\ labels_df = RowsOf(<<PyStr("damaged"), PyStr("destroyed"), PyInt(2)>>)
  /\ labeled_coordinates =
       << <<1, 0 - 1, [type |-> "float", s |-> "", n |-> 10]>>,
          <<3, 0 - 3, [type |-> "float", s |-> "", n |-> 20]>> >>

\* C5 as stated: with a keep-count N > 0 the output is exactly the first
\* min(N, k) of the k resolved coordinates, in file order; with a keep-count
\* of 0 or with the keep-count left unset it is all k of them.
C5_UnsetKeepsAll ==
  LabelsReturned =>
    LET keep == FLAGS.num_keep_labeled_examples
        k == Len(ExpectedCoordinates)
    IN  /\ (~FLAGS.num_keep_labeled_examples_present \/ keep = None
              \/ keep = Some(0)) =>
              labeled_coordinates = ExpectedCoordinates
        /\ (FLAGS.num_keep_labeled_examples_present /\ keep # None
              /\ keep[1] > 0) =>
              /\ Len(labeled_coordinates) = (IF keep[1] < k THEN keep[1] ELSE k)
              /\ \A i \in DOMAIN labeled_coordinates :
                   labeled_coordinates[i] = ExpectedCoordinates[i]

\* C5, amended: with a keep-count N > 0 the output is exactly the first
\* min(N, k) of the k resolved coordinates, in file order; with a keep-count
\* of 0 or None it is all k of them; when the flag is not given, its default
\* of 1000 is the keep-count and the output is the first min(1000, k).  (The
\* output is thereby a function of the file and the flags: a second run on
\* the same file returns the same sequence.)
C5_KeepCount ==
  LabelsReturned =>
    LET keep == FLAGS.num_keep_labeled_examples
        k == Len(ExpectedCoordinates)
    IN  /\ (keep = None \/ keep = Some(0)) =>
              labeled_coordinates = ExpectedCoordinates
        /\ (keep # None /\ keep[1] > 0) =>
              /\ Len(labeled_coordinates) = (IF keep[1] < k THEN keep[1] ELSE k)
              /\ \A i \in DOMAIN labeled_coordinates :
                   labeled_coordinates[i] = ExpectedCoordinates[i]
        /\ ~FLAGS.num_keep_labeled_examples_present =>
              Len(labeled_coordinates) = (IF k > 1000 THEN 1000 ELSE k)

\* The flag is not given and the file has 1001 valid rows: the first 1000
\* are returned.
C5_Witness ==
  /\ pc = "gdal_env"
  /\ ~FLAGS.num_keep_labeled_examples_present
  /\ Len(ExpectedCoordinates) = 1001
  /\ Len(labeled_coordinates) = 1000
  /\ labeled_coordinates[1][1] = 1 /\ labeled_coordinates[1000][1] = 1000

-----------------------------------------------------------------------------
(* C6, C7: the labeling task of both scripts, checked under SpecTask. *)

\* The string begins with the seven characters "europe-".
BeginsWithEurope(r) ==
  /\ Len(r) >= 7
  /\ r[1] = "e" /\ r[2] = "u" /\ r[3] = "r" /\ r[4] = "o"
  /\ r[5] = "p" /\ r[6] = "e" /\ r[7] = "-"

\* The region the run was configured with: cloud_region or cloud_location.
ConfiguredRegion ==
  IF Generate THEN FLAGS.cloud_region[1] ELSE FLAGS.cloud_location

\* The run is one that creates a labeling task.
TaskRequested == Task \/ FLAGS.create_cloud_labeling_task

\* C6: the region handed to job creation is one of the two supported regions,
\* 'europe-west4' exactly when the configured region starts with 'europe-'
\* and 'us-central1' otherwise, in both scripts and whatever the configured
\* region is; a task run that ends without error has created its job.
C6_RegionRouting ==
  /\ \A i \in CallsOf(JobCall) :
       /\ calls[i].args.region \in { <<"e", "u", "r", "o", "p", "e", "-", "w", "e", "s", "t", "4">>, <<"u", "s", "-", "c", "e", "n", "t", "r", "a", "l", "1">> }
       /\ calls[i].args.region = <<"e", "u", "r", "o", "p", "e", "-", "w", "e", "s", "t", "4">> <=> BeginsWithEurope(ConfiguredRegion)
  /\ (TaskRequested /\ pc = "done" /\ err = "none") => Called(JobCall)

\* A job created in europe-west4 for a project configured in another
\* European region.
C6_Witness ==
  \E i \in CallsOf(JobCall) :
    /\ ConfiguredRegion = <<"e", "u", "r", "o", "p", "e", "-", "w", "e", "s", "t", "1">>
    /\ calls[i].args.region = <<"e", "u", "r", "o", "p", "e", "-", "w", "e", "s", "t", "4">>
    /\ calls[i].returned

\* The dataset name with its timestamp, as the f-string renders it.
IsTimestamped(name) ==
  \E t \in Timestamps :
    name = (IF FLAGS.dataset_name = None THEN <<"N", "o", "n", "e">>
            ELSE FLAGS.dataset_name[1]) \o <<"_">> \o t

\* C7: with an existing pool identifier no pool is created and the identifier
\* reaches job creation unchanged; otherwise, with a non-empty email list,
\* exactly one pool is created, managed by the first email, with all the
\* emails as members and the job's timestamped dataset name plus '_pool' as
\* display name, and the identifier it returns reaches job creation; with
\* neither, the run fails and creates neither a pool nor a job.
C7_PoolProvisioning ==
  LET pool == FLAGS.cloud_labeler_pool
      emails == FLAGS.cloud_labeler_emails
  IN  /\ pool # None =>
           /\ ~Called(PoolCall)
           /\ \A j \in CallsOf(JobCall) : calls[j].args.labeler_pool = pool[1]
      /\ (pool = None /\ emails \notin {None, Some(<<>>)}) =>
           /\ Cardinality(CallsOf(PoolCall)) <= 1
           /\ pc = "job" => Cardinality(CallsOf(PoolCall)) = 1
           /\ \A i \in CallsOf(PoolCall) :
                /\ calls[i].args.manager_emails = <<emails[1][1]>>
                /\ calls[i].args.worker_emails = emails[1]
                /\ \E n \in DOMAIN calls[i].args.worker_emails :
                     calls[i].args.worker_emails[n] = calls[i].args.manager_emails[1]
                /\ \E d \in {calls[i].args.display_name} :
                     /\ Len(d) > 5
                     /\ SubSeq(d, Len(d) - 4, Len(d)) = <<"_", "p", "o", "o", "l">>
                     /\ IsTimestamped(SubSeq(d, 1, Len(d) - 5))
           /\ \A j \in CallsOf(JobCall) :
                \E i \in CallsOf(PoolCall) :
                  /\ i < j
                  /\ calls[i].returned
                  /\ calls[j].args.labeler_pool = calls[i].result
                  /\ calls[i].args.display_name =
                       calls[j].args.dataset_name \o <<"_", "p", "o", "o", "l">>
      /\ (pool = None /\ emails \in {None, Some(<<>>)}) =>
           /\ ~Called(PoolCall)
           /\ ~Called(JobCall)
           /\ pc # "job"
           /\ (TaskRequested /\ pc = "done") => err # "none"
      /\ (TaskRequested /\ pc = "done" /\ err = "none") => Called(JobCall)

\* Emails ["a@x.com", "b@x.com"]: a pool managed by "a@x.com" with both as
\* members is created and its identifier is the job's pool.
C7_Witness ==
  /\ FLAGS.cloud_labeler_pool = None
  /\ \E i \in CallsOf(PoolCall), j \in CallsOf(JobCall) :
       /\ calls[i].args.manager_emails = <<"a@x.com">>
       /\ calls[i].args.worker_emails = <<"a@x.com", "b@x.com">>
       /\ calls[j].args.labeler_pool = calls[i].result
       /\ calls[j].returned

-----------------------------------------------------------------------------
(* C8, C10: the generation dispatcher, checked under SpecEngine. *)

\* Position of the first '=' of a setting that has one.
FirstEquals(setting) ==
  1 + Cardinality({ j \in 1..Len(setting) : \A k \in 1..j : setting[k] # "=" })

KeyOf(setting) == SubSeq(setting, 1, FirstEquals(setting) - 1)
ValueOf(setting) == SubSeq(setting, FirstEquals(setting) + 1, Len(setting))

AllHaveEquals ==
  \A k \in DOMAIN FLAGS.gdal_env :
    \E n \in DOMAIN FLAGS.gdal_env[k] : FLAGS.gdal_env[k][n] = "="

\* d maps the key of every setting to the value of the last setting with
\* that key.
IsExpectedEnv(d) ==
  /\ DOMAIN d = { KeyOf(FLAGS.gdal_env[k]) : k \in DOMAIN FLAGS.gdal_env }
  /\ \A k \in DOMAIN FLAGS.gdal_env :
       (\A m \in DOMAIN FLAGS.gdal_env :
           m > k => KeyOf(FLAGS.gdal_env[m]) # KeyOf(FLAGS.gdal_env[k]))
         => d[KeyOf(FLAGS.gdal_env[k])] = ValueOf(FLAGS.gdal_env[k])

\* Position of main relative to line 273.
GdalEnvParsed ==
  pc \in {"generate", "labeling_task", "pool", "job"} \/ Called(PipelineCall)

\* C8: when every gdal_env entry contains '=', _get_gdal_env returns the
\* mapping from the text before the first '=' of each entry to the text after
\* it, later entries overriding earlier ones, and the engine receives it;
\* when an entry lacks '=', it raises, no mapping is returned and the
\* generation engine is not invoked.
C8_GdalEnv ==
  Generate =>
    IF AllHaveEquals
    THEN /\ err # ErrGdalEnv
         /\ GdalEnvParsed => IsExpectedEnv(gdal_env)
         /\ \A i \in CallsOf(PipelineCall) : IsExpectedEnv(calls[i].args.gdal_env)
    ELSE /\ ~GdalEnvParsed
         /\ DOMAIN gdal_env = {}
         /\ pc = "done" => err # "none"
         /\ (pc = "done" /\ (\A i \in DOMAIN calls : calls[i].returned)
               /\ err \notin {ErrContainerImage, ErrNoSource, ErrLabelType})
              => err = ErrGdalEnv

\* Two settings of the same variable: the later one wins.
C8_Witness ==
  /\ FLAGS.gdal_env = << <<"A", "=", "1">>, <<"A", "=", "2">> >>
  /\ \E i \in CallsOf(PipelineCall) :
       /\ DOMAIN calls[i].args.gdal_env = { <<"A">> }
       /\ calls[i].args.gdal_env[<<"A">>] = <<"2">>

\* The version is 3.<minor>, alone or followed by a patch level.
IsPython3Minor(v, minor) ==
  /\ Len(v) >= 3
  /\ v[1] = "3" /\ v[2] = "." /\ v[3] = minor
  /\ Len(v) = 3 \/ v[4] = "."

\* The run has passed the container-image check.
ImageChecked == pc # "container_image"

\* C10: without Dataflow, or with an explicit image, the image check raises
\* nothing and the configured image is handed on unchanged; with Dataflow and
\* no image, the engine gets the default image of Python 3.7, 3.8 or 3.9, and
\* under any other interpreter the run fails before any other stage.
C10_EngineSelection ==
  Generate =>
    LET image == FLAGS.dataflow_container_image
        v == python_version
    IN  /\ (~FLAGS.use_dataflow \/ image # None) =>
             /\ err # ErrContainerImage
             /\ ImageChecked => dataflow_container_image = image
             /\ \A i \in CallsOf(PipelineCall) :
                  calls[i].args.dataflow_container_image = image
        /\ (FLAGS.use_dataflow /\ image = None) =>
             /\ \A m \in {"7", "8", "9"} :
                  IsPython3Minor(v, m) =>
                    /\ err # ErrContainerImage
                    /\ ImageChecked =>
                         dataflow_container_image =
                           << IF m = "7"
                              THEN "gcr.io/disaster-assessment/dataflow_3.7_image:latest"
                              ELSE IF m = "8"
                              THEN "gcr.io/disaster-assessment/dataflow_3.8_image:latest"
                              ELSE "gcr.io/disaster-assessment/dataflow_3.9_image:latest" >>
                    /\ \A i \in CallsOf(PipelineCall) :
                         calls[i].args.dataflow_container_image =
                           dataflow_container_image
             /\ (~\E m \in {"7", "8", "9"} : IsPython3Minor(v, m)) =>
                  (ImageChecked =>
                     /\ pc = "done"
                     /\ err = ErrContainerImage
                     /\ calls = <<>>)

\* A Dataflow run under Python 3.9 with no image configured.
C10_Witness ==
  /\ Generate /\ FLAGS.use_dataflow /\ FLAGS.dataflow_container_image = None
  /\ python_version = <<"3", ".", "9", ".", "1">>
  /\ \E i \in CallsOf(PipelineCall) :
       /\ calls[i].args.dataflow_container_image =
            <<"gcr.io/disaster-assessment/dataflow_3.9_image:latest">>
       /\ calls[i].returned

-----------------------------------------------------------------------------
(* C9, checked under Spec. *)

\* C9: with buildings_method 'none' and a labels file, the run is not
\* rejected for lack of sources, calls neither the AOI reader nor a
\* building-discovery collaborator, and, once ingestion has yielded a
\* non-empty labeled set and the gdal_env flag has parsed, invokes the
\* generation engine exactly once, with no building centroid and exactly the
\* ingested labeled coordinates (the resolved rows of the file, up to the
\* default keep-count).
C9_LabelsOnlyRun ==
  (Generate /\ FLAGS.buildings_method = "none"
     /\ FLAGS.labels_file \notin {None, Some("")}) =>
    /\ err # ErrNoSource
    /\ \A i \in DOMAIN calls : calls[i].name \notin DiscoveryCalls
    /\ Cardinality(CallsOf(PipelineCall)) <= 1
    /\ \A i \in CallsOf(PipelineCall) :
         /\ calls[i].args.building_centroids = <<>>
         /\ calls[i].args.labeled_coordinates = labeled_coordinates
         /\ Len(calls[i].args.labeled_coordinates) =
              (IF Len(ExpectedCoordinates) > 1000 THEN 1000
               ELSE Len(ExpectedCoordinates))
         /\ \A n \in DOMAIN calls[i].args.labeled_coordinates :
              calls[i].args.labeled_coordinates[n] = ExpectedCoordinates[n]
    /\ (labeled_coordinates # <<>> /\ pc \notin {"gdal_env", "generate"}
          /\ err # ErrGdalEnv) =>
         Cardinality(CallsOf(PipelineCall)) = 1
    /\ (labeled_coordinates # <<>>
          /\ \A k \in DOMAIN FLAGS.gdal_env :
               \E n \in DOMAIN FLAGS.gdal_env[k] : FLAGS.gdal_env[k][n] = "=") =>
         err # ErrGdalEnv

\* A labels-only run that succeeded.
C9_Witness ==
  /\ Generate /\ FLAGS.buildings_method = "none"
  /\ pc = "done" /\ err = "none"
  /\ labeled_coordinates # <<>>
  /\ \E i \in CallsOf(PipelineCall) :
       /\ calls[i].returned
       /\ calls[i].args.building_centroids = <<>>
       /\ calls[i].args.labeled_coordinates # <<>>

====
